---- MODULE Spec2Model ----
(***************************************************************************)
(* Model of the routing manager and command loop of tmaxmax/hub            *)
(* (src/manager.go, second definition of the package, and src/hub.go).     *)
(*                                                                         *)
(* The manager owns two maps, topics (Topic -> Conn -> *counter) and conns *)
(* (Conn -> *connRefCount).  The command loop (Hub.Start) takes one        *)
(* command at a time from the hub channel and applies it.  The only point  *)
(* inside a command where the loop can suspend is the send `c <- msg` of   *)
(* manager.message, so a Message command is modelled as one step per send  *)
(* and every other command as one step.                                    *)
(***************************************************************************)
EXTENDS Integers, Sequences, FiniteSets

\* ------------------------------------------------------------------ bounds
\* Largest MessageCount a command carries.
MaxCount == 2
\* Message commands are taken only while every counter is above -MaxNeg
\* (a negative counter is decremented for ever by counter.dec).
MaxNeg == 2

\* Largest MessageCount a command carries where two subscribers are modelled.
MaxCountAll == 1

\* Largest number of commands waiting in the buffer of the hub channel (a
\* Hub made by New has no buffer; Start runs on any Hub).
MaxPending == 1

\* Subscriber channels and topic identifiers of the model.
Conns == {"a", "b"}
Solo == {"a"}
\* The nil channel, the Conn of hub.Disconnect{}: no command connects it.
NilConn == "nilConn"
\* The default topic is the nil interface value (hub.go: "a topic identified
\* by the nil interface").
DefaultTopic == "nil"
Topics == {DefaultTopic, "A"}

\* MessageCount values a command may carry (Number = int, negative allowed).
Counts == (-1)..MaxCount
CountsAll == 0..MaxCountAll
\* Per-topic MessageCount values of a ConnectEach: negative, unset, and the
\* largest count (the smaller ones are what deliveries leave of it).
CountsEach == {-1, 0, MaxCount}

\* Topic lists of commands: every list of at most as many entries as there
\* are topics, so a list can name every topic once or one topic twice.
ListLens == 0..Cardinality(Topics)
TopicLists == UNION {[1..n -> Topics] : n \in ListLens}
TopicConns(CN) == [Topic : Topics, MessageCount : CN]
TopicConnLists(CN) == UNION {[1..n -> TopicConns(CN)] : n \in ListLens}

\* Orders in which a `range` over a Go map may visit its keys.
Perms(S) == {p \in [1..Cardinality(S) -> S] : \A x \in S : \E i \in DOMAIN p : p[i] = x}
ConnOrders == Perms(Conns)
TopicOrders == Perms(Topics)

\* ------------------------------------------------------------ map helpers
EmptyMap == [x \in {} |-> 0]
MapPut(f, k, v) == [x \in (DOMAIN f) \cup {k} |-> IF x = k THEN v ELSE f[x]]
MapDel(f, k) == [x \in (DOMAIN f) \ {k} |-> f[x]]
\* The keys of map f in the order ord visits them.
KeysIn(ord, f) == SelectSeq(ord, LAMBDA x : x \in DOMAIN f)

VARIABLES
    topics,  \* manager.topics: topic -> (conn -> per-topic counter)
    conns,   \* manager.conns: conn -> [topics, messages, keep]
    closes,  \* per channel, the number of close(c) calls the loop has made
    pc,      \* "idle" | "fanout" | "done" | "panicked"
    fan,     \* position of manager.message between two sends
    last,    \* the step the loop took last: the command or send, the conn it
             \* names and the topics that conn was on before the step
    quota,   \* per budget, the deliveries left since a command last set it
    hub      \* the hub channel h: whether a producer has closed it, and the
             \* number of commands sent on it that the loop has not received

vars == <<topics, conns, closes, pc, fan, last, quota, hub>>

\* The manager together with the channels it closes, as one value m:
\* [topics, conns, closes, panic].  panic is set by a Go runtime panic
\* (close of a closed channel, send on a closed channel, nil dereference).
Mgr(t, c, cl) == [topics |-> t, conns |-> c, closes |-> cl, panic |-> FALSE]

\* ----------------------------------------------------------------- counter
\* counter.dec: [v |-> the new value, ret |-> the returned bool].
\* dec that takes a negative counter up towards 0.
decTowardsZero(c) ==
    IF c = 0 THEN [v |-> 0, ret |-> FALSE]
    ELSE IF c < 0 THEN [v |-> c + 1, ret |-> c + 1 = 0]
    ELSE [v |-> c - 1, ret |-> c - 1 = 0]

dec(c) == IF c = 0 THEN [v |-> 0, ret |-> FALSE] ELSE [v |-> c - 1, ret |-> c - 1 = 0]

inc(c) == c + 1

\* reset that sets the counter whatever the sign of the given value.
resetAlways(c, init) == init

reset(c, init) == IF init < 0 THEN c ELSE init

newCounter(init) == init

getTopics(initial, defaultIfNone) ==
    IF defaultIfNone /\ Len(initial) = 0 THEN <<DefaultTopic>> ELSE initial

newManager == [topics |-> EmptyMap, conns |-> EmptyMap]

\* builtin close(c): a second close of the same channel panics.
CloseChan(m, c) ==
    IF m.closes[c] >= 1
    THEN [m EXCEPT !.closes[c] = @ + 1, !.panic = TRUE]
    ELSE [m EXCEPT !.closes[c] = 1]

\* ----------------------------------------------------------------- manager
\* manager.close that does not look at keep.
RECURSIVE closeLoopAll(_, _)
closeLoopAll(m, ord) ==
    IF ord = <<>> \/ m.panic THEN m
    ELSE closeLoopAll(CloseChan(m, Head(ord)), Tail(ord))

\* manager.close over the conns in order ord; a panic ends the loop.
RECURSIVE closeLoop(_, _)
closeLoop(m, ord) ==
    IF ord = <<>> \/ m.panic THEN m
    ELSE LET c == Head(ord) IN
         closeLoop(IF ~m.conns[c].keep THEN CloseChan(m, c) ELSE m, Tail(ord))

close(m, cord) == closeLoop(m, KeysIn(cord, m.conns))

getTopicConns(m, t) ==
    IF t \in DOMAIN m.topics THEN m ELSE [m EXCEPT !.topics = MapPut(@, t, EmptyMap)]

\* The loop of connectEach over the topics of a known conn.
RECURSIVE connectKnown(_, _, _)
connectKnown(m, c, ts) ==
    IF ts = <<>> THEN m
    ELSE LET t  == Head(ts)
             m1 == getTopicConns(m, t.Topic)
             m2 == IF c \in DOMAIN m1.topics[t.Topic]
                   THEN [m1 EXCEPT !.topics[t.Topic][c] = reset(@, t.MessageCount)]
                   ELSE [m1 EXCEPT !.topics[t.Topic] = MapPut(@, c, newCounter(t.MessageCount)),
                                   !.conns[c].topics = inc(@)]
         IN connectKnown(m2, c, Tail(ts))

\* The loop of connectEach over the topics of a new conn.
RECURSIVE connectNew(_, _, _)
connectNew(m, c, ts) ==
    IF ts = <<>> THEN m
    ELSE LET t  == Head(ts)
             m1 == getTopicConns(m, t.Topic)
         IN connectNew([m1 EXCEPT !.topics[t.Topic] = MapPut(@, c, newCounter(t.MessageCount))],
                       c, Tail(ts))

\* connectEach that installs a known conn anew, as it does one it does not
\* know.
connectEachReplace(m, cmd) ==
    LET ok == cmd.Conn \in DOMAIN m.conns
        ts == IF Len(cmd.Topics) = 0 /\ ~ok
              THEN <<[Topic |-> DefaultTopic, MessageCount |-> 0]>>
              ELSE cmd.Topics
    IN connectNew([m EXCEPT !.conns = MapPut(@, cmd.Conn,
                                  [topics   |-> Len(ts),
                                   messages |-> cmd.MessageCount,
                                   keep     |-> cmd.KeepAlive])],
                  cmd.Conn, ts)

\* connectEach that takes the list of topics as it is, empty or not.
connectEachNeverDefault(m, cmd) ==
    LET ok == cmd.Conn \in DOMAIN m.conns
        ts == cmd.Topics
    IN IF ok
       THEN LET m1 == connectKnown(m, cmd.Conn, ts)
            IN [m1 EXCEPT !.conns[cmd.Conn].keep = cmd.KeepAlive,
                          !.conns[cmd.Conn].messages = reset(@, cmd.MessageCount)]
       ELSE connectNew([m EXCEPT !.conns = MapPut(@, cmd.Conn,
                                     [topics   |-> Len(ts),
                                      messages |-> cmd.MessageCount,
                                      keep     |-> cmd.KeepAlive])],
                       cmd.Conn, ts)

\* connectEach that puts the default topic for an empty list whether or not
\* the conn is known.
connectEachAlwaysDefault(m, cmd) ==
    LET ok == cmd.Conn \in DOMAIN m.conns
        ts == IF Len(cmd.Topics) = 0
              THEN <<[Topic |-> DefaultTopic, MessageCount |-> 0]>>
              ELSE cmd.Topics
    IN IF ok
       THEN LET m1 == connectKnown(m, cmd.Conn, ts)
            IN [m1 EXCEPT !.conns[cmd.Conn].keep = cmd.KeepAlive,
                          !.conns[cmd.Conn].messages = reset(@, cmd.MessageCount)]
       ELSE connectNew([m EXCEPT !.conns = MapPut(@, cmd.Conn,
                                     [topics   |-> Len(ts),
                                      messages |-> cmd.MessageCount,
                                      keep     |-> cmd.KeepAlive])],
                       cmd.Conn, ts)

\* manager.connectEach; cmd = [Conn, Topics, MessageCount, KeepAlive].
connectEach(m, cmd) ==
    LET ok == cmd.Conn \in DOMAIN m.conns
        ts == IF Len(cmd.Topics) = 0 /\ ~ok
              THEN <<[Topic |-> DefaultTopic, MessageCount |-> 0]>>
              ELSE cmd.Topics
    IN IF ok
       THEN LET m1 == connectKnown(m, cmd.Conn, ts)
            IN [m1 EXCEPT !.conns[cmd.Conn].keep = cmd.KeepAlive,
                          !.conns[cmd.Conn].messages = reset(@, cmd.MessageCount)]
       ELSE connectNew([m EXCEPT !.conns = MapPut(@, cmd.Conn,
                                     [topics   |-> Len(ts),
                                      messages |-> cmd.MessageCount,
                                      keep     |-> cmd.KeepAlive])],
                       cmd.Conn, ts)

\* Connect.toConnectEach: every TopicConn gets the zero MessageCount.
toConnectEach(cmd) ==
    [Conn |-> cmd.Conn,
     Topics |-> [i \in DOMAIN cmd.Topics |-> [Topic |-> cmd.Topics[i], MessageCount |-> 0]],
     MessageCount |-> cmd.MessageCount,
     KeepAlive |-> cmd.KeepAlive]

connect(m, cmd) == connectEach(m, toConnectEach(cmd))

\* Operations that return a bool give [m |-> the manager after, ret |-> the bool].
\* removeConnFromTopicNoRefCounter that leaves the key of a topic whose last
\* conn it has deleted.
removeConnFromTopicNoRefCounterKeepTopic(m, t, c) ==
    LET tm      == IF t \in DOMAIN m.topics THEN m.topics[t] ELSE EmptyMap
        prevLen == Cardinality(DOMAIN tm)
        after   == MapDel(tm, c)
        currLen == Cardinality(DOMAIN after)
    IN IF prevLen = currLen THEN [m |-> m, ret |-> FALSE]
       ELSE [m |-> [m EXCEPT !.topics[t] = after], ret |-> TRUE]

removeConnFromTopicNoRefCounter(m, t, c) ==
    LET tm      == IF t \in DOMAIN m.topics THEN m.topics[t] ELSE EmptyMap
        prevLen == Cardinality(DOMAIN tm)
        after   == MapDel(tm, c)
        currLen == Cardinality(DOMAIN after)
    IN IF prevLen = currLen THEN [m |-> m, ret |-> FALSE]
       ELSE IF currLen = 0 THEN [m |-> [m EXCEPT !.topics = MapDel(@, t)], ret |-> TRUE]
       ELSE [m |-> [m EXCEPT !.topics[t] = after], ret |-> TRUE]

\* removeConnFromTopicRefCountOnly without the test of ref.keep.
removeConnFromTopicRefCountOnlyNoKeep(m, c) ==
    IF c \notin DOMAIN m.conns
    THEN [m |-> [m EXCEPT !.panic = TRUE], ret |-> FALSE]
    ELSE LET ref == m.conns[c]
             d   == dec(ref.topics)
         IN IF d.ret
            THEN [m |-> CloseChan([m EXCEPT !.conns = MapDel(@, c)], c), ret |-> TRUE]
            ELSE [m |-> [m EXCEPT !.conns[c].topics = d.v], ret |-> FALSE]

\* removeConnFromTopicRefCountOnly that deletes the entry of the conn
\* whatever its topic count has come to.
removeConnFromTopicRefCountOnlyEager(m, c) ==
    IF c \notin DOMAIN m.conns
    THEN [m |-> [m EXCEPT !.panic = TRUE], ret |-> FALSE]
    ELSE LET ref == m.conns[c]
             m1  == [m EXCEPT !.conns = MapDel(@, c)]
         IN [m |-> IF ~ref.keep THEN CloseChan(m1, c) ELSE m1, ret |-> TRUE]

removeConnFromTopicRefCountOnly(m, c) ==
    IF c \notin DOMAIN m.conns
    THEN [m |-> [m EXCEPT !.panic = TRUE], ret |-> FALSE]  \* ref is nil
    ELSE LET ref == m.conns[c]
             d   == dec(ref.topics)
         IN IF d.ret
            THEN LET m1 == [m EXCEPT !.conns = MapDel(@, c)]
                 IN [m |-> IF ~ref.keep THEN CloseChan(m1, c) ELSE m1, ret |-> TRUE]
            ELSE [m |-> [m EXCEPT !.conns[c].topics = d.v], ret |-> FALSE]

removeConnFromTopic(m, t, c) ==
    LET r == removeConnFromTopicNoRefCounter(m, t, c)
    IN IF ~r.ret THEN [m |-> m, ret |-> FALSE]
       ELSE removeConnFromTopicRefCountOnly(r.m, c)

\* `for t := range m.topics { m.removeConnFromTopicNoRefCounter(t, c) }`
RECURSIVE unlinkAll(_, _, _)
unlinkAll(m, c, ts) ==
    IF ts = <<>> THEN m
    ELSE unlinkAll(removeConnFromTopicNoRefCounter(m, Head(ts), c).m, c, Tail(ts))

\* disconnectAll without the test that the conn is known: ref is nil for an
\* unknown conn and ref.keep dereferences it.
disconnectAllUnchecked(m, c, tord) ==
    IF c \notin DOMAIN m.conns THEN [m EXCEPT !.panic = TRUE]
    ELSE LET m1 == IF ~m.conns[c].keep THEN CloseChan(m, c) ELSE m
         IN IF m1.panic THEN m1
            ELSE unlinkAll([m1 EXCEPT !.conns = MapDel(@, c)], c, KeysIn(tord, m1.topics))

\* disconnectAll without the walk over m.topics.
disconnectAllNoUnlink(m, c, tord) ==
    IF c \notin DOMAIN m.conns THEN m
    ELSE LET m1 == IF ~m.conns[c].keep THEN CloseChan(m, c) ELSE m
         IN IF m1.panic THEN m1 ELSE [m1 EXCEPT !.conns = MapDel(@, c)]

disconnectAll(m, c, tord) ==
    IF c \notin DOMAIN m.conns THEN m
    ELSE LET m1 == IF ~m.conns[c].keep THEN CloseChan(m, c) ELSE m
         IN IF m1.panic THEN m1
            ELSE unlinkAll([m1 EXCEPT !.conns = MapDel(@, c)], c, KeysIn(tord, m1.topics))

\* The loop of disconnect over the listed topics.
RECURSIVE disconnectLoop(_, _, _)
disconnectLoop(m, c, ts) ==
    IF ts = <<>> \/ m.panic THEN m
    ELSE IF Head(ts) \notin DOMAIN m.topics THEN disconnectLoop(m, c, Tail(ts))
    ELSE LET r == removeConnFromTopic(m, Head(ts), c)
         IN IF r.ret THEN r.m ELSE disconnectLoop(r.m, c, Tail(ts))

\* disconnect that goes on to close the channel of a conn it leaves known,
\* as the comment on the Disconnect command has it.
disconnectClosing(m, d) ==
    IF d.Conn \notin DOMAIN m.conns THEN m
    ELSE LET m1 == disconnectLoop(m, d.Conn, getTopics(d.Topics, TRUE))
         IN IF ~m1.panic /\ d.Conn \in DOMAIN m1.conns /\ ~m1.conns[d.Conn].keep
            THEN CloseChan(m1, d.Conn)
            ELSE m1

\* manager.disconnect; d = [Conn, Topics].
disconnect(m, d) ==
    IF d.Conn \notin DOMAIN m.conns THEN m
    ELSE disconnectLoop(m, d.Conn, getTopics(d.Topics, TRUE))

\* `for c := range conns { m.removeConnFromTopicRefCountOnly(c) }`
RECURSIVE dropRefs(_, _)
dropRefs(m, cs) ==
    IF cs = <<>> \/ m.panic THEN m
    ELSE dropRefs(removeConnFromTopicRefCountOnly(m, Head(cs)).m, Tail(cs))

\* The loop of closeTopics with break in place of continue: it stops at the
\* first listed topic that is not in m.topics.
RECURSIVE closeTopicsLoopBreak(_, _, _)
closeTopicsLoopBreak(m, ts, cord) ==
    IF ts = <<>> \/ m.panic THEN m
    ELSE IF Head(ts) \notin DOMAIN m.topics THEN m
    ELSE LET cs == KeysIn(cord, m.topics[Head(ts)])
             m1 == [m EXCEPT !.topics = MapDel(@, Head(ts))]
         IN closeTopicsLoopBreak(dropRefs(m1, cs), Tail(ts), cord)

\* The loop of closeTopics over the listed topics.
RECURSIVE closeTopicsLoop(_, _, _)
closeTopicsLoop(m, ts, cord) ==
    IF ts = <<>> \/ m.panic THEN m
    ELSE IF Head(ts) \notin DOMAIN m.topics THEN closeTopicsLoop(m, Tail(ts), cord)
    ELSE LET cs == KeysIn(cord, m.topics[Head(ts)])
             m1 == [m EXCEPT !.topics = MapDel(@, Head(ts))]
         IN closeTopicsLoop(dropRefs(m1, cs), Tail(ts), cord)

\* manager.closeTopics; c is the Close command, a list of topics.
closeTopics(m, c, cord) == closeTopicsLoop(m, getTopics(c, TRUE), cord)

closeAllTopics(m, tord, cord) == closeTopicsLoop(m, KeysIn(tord, m.topics), cord)

\* The loop over m.topics that ends after the first topic it visits.
removeEverywhereFirst(m, c, ts) ==
    IF ts = <<>> \/ m.panic THEN m
    ELSE removeConnFromTopic(m, Head(ts), c).m

\* `for t := range m.topics { m.removeConnFromTopic(t, c) }` of manager.message
RECURSIVE removeEverywhere(_, _, _)
removeEverywhere(m, c, ts) ==
    IF ts = <<>> \/ m.panic THEN m
    ELSE removeEverywhere(removeConnFromTopic(m, Head(ts), c).m, c, Tail(ts))

\* afterSend where a depleted per-topic counter removes c from every topic.
afterSendDropAll(m, t, c, tord) ==
    IF c \notin DOMAIN m.conns THEN [m EXCEPT !.panic = TRUE]
    ELSE LET d == dec(m.conns[c].messages)
             m1 == [m EXCEPT !.conns[c].messages = d.v]
         IN IF d.ret THEN removeEverywhere(m1, c, KeysIn(tord, m1.topics))
            ELSE LET e == dec(m1.topics[t][c])
                     m2 == [m1 EXCEPT !.topics[t][c] = e.v]
                 IN IF e.ret THEN removeEverywhere(m2, c, KeysIn(tord, m2.topics)) ELSE m2

\* afterSend with the two budgets in the other order: the per-topic budget
\* first, the total budget otherwise.
afterSendTopicFirst(m, t, c, tord) ==
    IF c \notin DOMAIN m.conns THEN [m EXCEPT !.panic = TRUE]
    ELSE LET e == dec(m.topics[t][c])
             m1 == [m EXCEPT !.topics[t][c] = e.v]
         IN IF e.ret THEN removeConnFromTopic(m1, t, c).m
            ELSE LET d == dec(m1.conns[c].messages)
                     m2 == [m1 EXCEPT !.conns[c].messages = d.v]
                 IN IF d.ret THEN removeEverywhere(m2, c, KeysIn(tord, m2.topics)) ELSE m2

\* The body of the inner loop of manager.message after the send to c on
\* topic t: the total budget first, the per-topic budget otherwise.
afterSend(m, t, c, tord) ==
    IF c \notin DOMAIN m.conns THEN [m EXCEPT !.panic = TRUE]  \* m.conns[c] is nil
    ELSE LET d == dec(m.conns[c].messages)
             m1 == [m EXCEPT !.conns[c].messages = d.v]
         IN IF d.ret THEN removeEverywhere(m1, c, KeysIn(tord, m1.topics))
            ELSE LET e == dec(m1.topics[t][c])
                     m2 == [m1 EXCEPT !.topics[t][c] = e.v]
                 IN IF e.ret THEN removeConnFromTopic(m2, t, c).m ELSE m2


\* ------------------------------------------------------------ command loop
NoFan == [topics |-> <<>>, rest |-> {}, cur |-> "none"]
\* The topics on which conn c has an edge.
EdgesIn(tp, c) == {t \in DOMAIN tp : c \in DOMAIN tp[t]}
Edges(c) == EdgesIn(topics, c)

Step(op, c) == [op |-> op, conn |-> c, had |-> Edges(c)]

\* The manager and the channels as the loop sees them between two steps.
M == Mgr(topics, conns, closes)

Init ==
    /\ topics = newManager.topics
    /\ conns = newManager.conns
    /\ closes = [c \in Conns |-> 0]
    /\ pc = "idle"
    /\ fan = NoFan
    /\ last = Step("New", "none")
    /\ quota = [total |-> [c \in Conns |-> -1],
                edge  |-> [t \in Topics |-> [c \in Conns |-> -1]]]
    /\ hub = [closed |-> FALSE, pending |-> 0]

\* quota records what the producers asked for, to state the claims about
\* budgets: for the total budget of a conn and for the budget of an edge, the
\* number of deliveries still allowed since a command last set it to n > 0
\* (-1 when the budget last set is not positive, -2 once a delivery was made
\* with none left).  A budget ends with its conn or edge: the next
\* connectEach sets it anew.
Allowed(n) == IF n > 0 THEN n ELSE -1
Used(x) == IF x = -1 THEN -1 ELSE IF x >= 1 THEN x - 1 ELSE -2
HasEdge(m, t, c) == t \in DOMAIN m.topics /\ c \in DOMAIN m.topics[t]

\* A connectEach that took the manager from m0 to m1 sets the total budget of
\* a new conn and of a known one when its MessageCount is not negative, and
\* the budget of a new edge and of a listed one whose MessageCount is not
\* negative.
QuotaSet(m0, m1, cmd) ==
    LET c == cmd.Conn
        named(t) == \E i \in DOMAIN cmd.Topics :
                       cmd.Topics[i].Topic = t /\ cmd.Topics[i].MessageCount >= 0
    IN [total |-> [quota.total EXCEPT ![c] =
                      IF c \notin DOMAIN m0.conns \/ cmd.MessageCount >= 0
                      THEN Allowed(m1.conns[c].messages) ELSE @],
        edge  |-> [t \in Topics |-> [quota.edge[t] EXCEPT ![c] =
                      IF HasEdge(m1, t, c) /\ (~HasEdge(m0, t, c) \/ named(t))
                      THEN Allowed(m1.topics[t][c]) ELSE @]]]

\* q where only the budgets of the conns and edges of manager m are kept.
QuotaKept(q, m) ==
    [total |-> [c \in Conns |->
                   IF c \in DOMAIN m.conns \/ q.total[c] = -2 THEN q.total[c] ELSE -1],
     edge  |-> [t \in Topics |-> [c \in Conns |->
                   IF HasEdge(m, t, c) \/ q.edge[t][c] = -2 THEN q.edge[t][c] ELSE -1]]]

QuotaUsed(t, c) ==
    [total |-> [quota.total EXCEPT ![c] = Used(@)],
     edge  |-> [quota.edge EXCEPT ![t][c] = Used(@)]]

\* A panic unwinds Hub.Start, whose deferred m.close() still runs.
Unwind(m, q) ==
    \E cord \in ConnOrders :
        LET m2 == close([m EXCEPT !.panic = FALSE], cord)
        IN /\ topics' = m2.topics
           /\ conns' = m2.conns
           /\ closes' = m2.closes
           /\ pc' = "panicked"
           /\ fan' = NoFan
           /\ quota' = q

\* The loop is back at `for cmd := range h` with the manager as m.
Commit(m, q) ==
    IF m.panic THEN Unwind(m, q)
    ELSE /\ topics' = m.topics
         /\ conns' = m.conns
         /\ closes' = m.closes
         /\ pc' = "idle"
         /\ fan' = NoFan
         /\ quota' = q

\* The conns of the map manager.message ranges over for topic t.
TopicConnsOf(m, t) == IF t \in DOMAIN m.topics THEN DOMAIN m.topics[t] ELSE {}

\* nextSend that gives up the range over the conns of a topic once it has
\* begun, and goes on with the next topic.
RECURSIVE nextSendGiveUp(_, _, _)
nextSendGiveUp(m, ts, rest) ==
    IF ts = <<>> THEN [topics |-> <<>>, rest |-> {}]
    ELSE LET cands == IF rest = TopicConnsOf(m, Head(ts)) THEN rest ELSE {}
         IN IF cands # {} THEN [topics |-> ts, rest |-> cands]
            ELSE IF Len(ts) = 1 THEN [topics |-> <<>>, rest |-> {}]
            ELSE nextSendGiveUp(m, Tail(ts), TopicConnsOf(m, ts[2]))

\* nextSend that starts the range over the conns of the topic again after
\* every send.
RECURSIVE nextSendAgain(_, _, _)
nextSendAgain(m, ts, rest) ==
    IF ts = <<>> THEN [topics |-> <<>>, rest |-> {}]
    ELSE LET cands == TopicConnsOf(m, Head(ts))
         IN IF cands # {} THEN [topics |-> ts, rest |-> cands]
            ELSE IF Len(ts) = 1 THEN [topics |-> <<>>, rest |-> {}]
            ELSE nextSendAgain(m, Tail(ts), TopicConnsOf(m, ts[2]))

\* The next send of manager.message: the topics still to do (the current
\* one first) and the conns of the current one not visited yet; ts = <<>>
\* when the fan-out is over.
RECURSIVE nextSend(_, _, _)
nextSend(m, ts, rest) ==
    IF ts = <<>> THEN [topics |-> <<>>, rest |-> {}]
    ELSE LET cands == rest \cap TopicConnsOf(m, Head(ts))
         IN IF cands # {} THEN [topics |-> ts, rest |-> cands]
            ELSE IF Len(ts) = 1 THEN [topics |-> <<>>, rest |-> {}]
            ELSE nextSend(m, Tail(ts), TopicConnsOf(m, ts[2]))

\* manager.message runs on to its next send, or returns.
Proceed(m, ts, rest, q) ==
    IF m.panic THEN Unwind(m, q)
    ELSE LET n == nextSend(m, ts, rest)
         IN /\ quota' = q
            /\ topics' = m.topics
            /\ conns' = m.conns
            /\ closes' = m.closes
            /\ IF n.topics = <<>>
               THEN pc' = "idle" /\ fan' = NoFan
               ELSE /\ pc' = "fanout"
                    /\ \E c \in n.rest :
                          fan' = [topics |-> n.topics, rest |-> n.rest \ {c}, cur |-> c]

\* A Message command over list l cannot take a negative counter below -MaxNeg.
AboveFloor(l) ==
    /\ \A c \in DOMAIN conns : conns[c].messages < 0 => conns[c].messages - Len(l) >= -MaxNeg
    /\ \A t \in DOMAIN topics : \A c \in DOMAIN topics[t] :
          topics[t][c] < 0 => topics[t][c] - Len(l) >= -MaxNeg

\* The channels the loop has not closed: a producer that keeps to the
\* ownership of channels connects no other.
Open == {c \in Conns : closes[c] = 0}

\* A receive from the hub channel made wherever the loop is, a send that
\* has not completed included.
ReceiveAnytime ==
    /\ hub.pending > 0 \/ ~hub.closed
    /\ hub' = [hub EXCEPT !.pending = IF @ > 0 THEN @ - 1 ELSE 0]

\* `for cmd := range h`: the loop receives the oldest command waiting in the
\* buffer of h or, the buffer being empty and h open, the command a producer
\* hands over; what the command is shows in the case that handles it.
Receive ==
    /\ pc = "idle"
    /\ hub.pending > 0 \/ ~hub.closed
    /\ hub' = [hub EXCEPT !.pending = IF @ > 0 THEN @ - 1 ELSE 0]

\* The commands below are taken from the hub channel; CS is the set of conns,
\* CN the set of total and CT the set of per-topic MessageCount values the
\* producers of a specification use.

\* case Connect
Connect(CS, CN) ==
    /\ Receive
    /\ \E c \in CS, ts \in TopicLists, n \in CN, k \in BOOLEAN :
          LET cmd == [Conn |-> c, Topics |-> ts, MessageCount |-> n, KeepAlive |-> k]
              m   == connect(M, cmd)
          IN /\ Commit(m, QuotaSet(M, m, toConnectEach(cmd)))
             /\ last' = Step("Connect", c)

\* case ConnectEach
ConnectEach(CS, CT, CN) ==
    /\ Receive
    /\ \E c \in CS, ts \in TopicConnLists(CT), n \in CN, k \in BOOLEAN :
          LET cmd == [Conn |-> c, Topics |-> ts, MessageCount |-> n, KeepAlive |-> k]
              m   == connectEach(M, cmd)
          IN /\ Commit(m, QuotaSet(M, m, cmd))
             /\ last' = Step("Connect", c)

\* case Conn: m.connectEach(&ConnectEach{Conn: v})
BareConn(CS) ==
    /\ Receive
    /\ \E c \in CS :
          LET cmd == [Conn |-> c, Topics |-> <<>>, MessageCount |-> 0, KeepAlive |-> FALSE]
              m   == connectEach(M, cmd)
          IN /\ Commit(m, QuotaSet(M, m, cmd))
             /\ last' = Step("Connect", c)

\* case Disconnect
Disconnect(CS) ==
    /\ Receive
    /\ \E c \in CS, ts \in TopicLists :
          /\ \E m \in {disconnect(M, [Conn |-> c, Topics |-> ts])} : Commit(m, QuotaKept(quota, m))
          /\ last' = Step("Disconnect", c)

\* case DisconnectAll
DisconnectAll(CS) ==
    /\ Receive
    /\ \E c \in CS, tord \in TopicOrders :
          /\ \E m \in {disconnectAll(M, c, tord)} : Commit(m, QuotaKept(quota, m))
          /\ last' = Step("DisconnectAll", c)

\* case Close
Close ==
    /\ Receive
    /\ \E ts \in TopicLists, cord \in ConnOrders :
          /\ \E m \in {closeTopics(M, ts, cord)} : Commit(m, QuotaKept(quota, m))
          /\ last' = Step("Close", "none")

\* case CloseAll
CloseAll ==
    /\ Receive
    /\ \E tord \in TopicOrders, cord \in ConnOrders :
          /\ \E m \in {closeAllTopics(M, tord, cord)} : Commit(m, QuotaKept(quota, m))
          /\ last' = Step("CloseAll", "none")

\* case Message: manager.message up to its first send.
Message ==
    /\ Receive
    /\ \E ts \in TopicLists :
          LET l == getTopics(ts, TRUE)
          IN /\ AboveFloor(l)
             /\ Proceed(M, l, TopicConnsOf(M, l[1]), quota)
             /\ last' = Step("Message", "none")

\* default: m.message(&Message{Message: v})
Other ==
    /\ Receive
    /\ LET l == getTopics(<<>>, TRUE)
       IN /\ AboveFloor(l)
          /\ Proceed(M, l, TopicConnsOf(M, l[1]), quota)
          /\ last' = Step("Message", "none")

\* One pass of the inner loop of manager.message: the send `c <- msg.Message`
\* and what follows it, up to the next send.
Deliver ==
    /\ pc = "fanout"
    /\ hub' = hub
    /\ LET c == fan.cur
           t == Head(fan.topics)
       IN /\ last' = Step("Deliver", c)
          /\ IF closes[c] >= 1
             THEN Unwind(M, quota)  \* send on closed channel
             ELSE \E tord \in TopicOrders :
                     \E m \in {afterSend(M, t, c, tord)} :
                        Proceed(m, fan.topics, fan.rest, QuotaKept(QuotaUsed(t, c), m))

\* A producer sends a command on a hub channel whose buffer has room.
Enqueue ==
    /\ ~hub.closed
    /\ hub.pending < MaxPending
    /\ hub' = [hub EXCEPT !.pending = @ + 1]
    /\ UNCHANGED <<topics, conns, closes, pc, fan, last, quota>>

\* A producer closes the hub channel, wherever the loop is.
CloseInput ==
    /\ ~hub.closed
    /\ hub' = [hub EXCEPT !.closed = TRUE]
    /\ UNCHANGED <<topics, conns, closes, pc, fan, last, quota>>

\* The close of the hub channel that the loop meets at `for cmd := range h`:
\* a close made during a fan-out shows to the loop only once it is back
\* there, and the specifications about the manager alone take it there.
CloseInputAtRange ==
    /\ pc = "idle"
    /\ CloseInput

\* A range loop that ends as soon as the hub channel is closed, commands
\* still in its buffer or not.
CloseHubEarly ==
    /\ pc = "idle"
    /\ hub.closed
    /\ hub' = hub
    /\ \E cord \in ConnOrders :
          LET m == close(M, cord)
          IN /\ topics' = m.topics
             /\ conns' = m.conns
             /\ closes' = m.closes
             /\ pc' = IF m.panic THEN "panicked" ELSE "done"
             /\ fan' = NoFan
             /\ quota' = QuotaKept(quota, m)
    /\ last' = Step("CloseHub", "none")

\* The hub channel is closed and empty: the range loop ends, the deferred
\* m.close() runs and Start returns; New then closes done.
CloseHub ==
    /\ pc = "idle"
    /\ hub.closed
    /\ hub.pending = 0
    /\ hub' = hub
    /\ \E cord \in ConnOrders :
          LET m == close(M, cord)
          IN /\ topics' = m.topics
             /\ conns' = m.conns
             /\ closes' = m.closes
             /\ pc' = IF m.panic THEN "panicked" ELSE "done"
             /\ fan' = NoFan
             /\ quota' = QuotaKept(quota, m)
    /\ last' = Step("CloseHub", "none")

\* Two subscribers whose producers use every command, with a total
\* MessageCount up to MaxCountAll and no per-topic MessageCount.
Next ==
    \/ Connect(Open, CountsAll)
    \/ ConnectEach(Open, {0}, CountsAll)
    \/ BareConn(Open)
    \/ Disconnect(Conns)
    \/ DisconnectAll(Conns)
    \/ Close
    \/ CloseAll
    \/ Message
    \/ Other
    \/ Deliver
    \/ CloseInputAtRange
    \/ CloseHub

Spec == Init /\ [][Next]_vars

\* One subscriber whose producers use every command, with every total
\* MessageCount from -1 to MaxCount and the per-topic ones of CountsEach.
NextQuota ==
    \/ Connect(Solo \cap Open, Counts)
    \/ ConnectEach(Solo \cap Open, CountsEach, Counts)
    \/ BareConn(Solo \cap Open)
    \/ Disconnect(Solo)
    \/ DisconnectAll(Solo)
    \/ Close
    \/ CloseAll
    \/ Message
    \/ Other
    \/ Deliver
    \/ CloseInputAtRange
    \/ CloseHub

SpecQuota == Init /\ [][NextQuota]_vars

\* One subscriber whose producers also connect a channel the loop has
\* closed, with a total MessageCount up to MaxCountAll, disconnect the nil
\* channel and close the hub channel at any moment.
NextReuse ==
    \/ Connect(Solo, CountsAll)
    \/ ConnectEach(Solo, {0}, CountsAll)
    \/ BareConn(Solo)
    \/ Disconnect(Solo \cup {NilConn})
    \/ DisconnectAll(Solo \cup {NilConn})
    \/ Close
    \/ CloseAll
    \/ Message
    \/ Other
    \/ Deliver
    \/ CloseInput
    \/ CloseHub

SpecReuse == Init /\ [][NextReuse]_vars

\* Two subscribers without quota whose producers connect, disconnect and
\* publish through a hub channel with room for MaxPending commands, and
\* close it at any moment.
NextLoop ==
    \/ Connect(Open, {0})
    \/ DisconnectAll(Conns)
    \/ Message
    \/ Deliver
    \/ Enqueue
    \/ CloseInput
    \/ CloseHub

SpecLoop == Init /\ [][NextLoop]_vars

\* One subscriber without quota, connected again after its eviction too,
\* whose producers send their commands through a hub channel with room for
\* MaxPending of them and close it at any moment.
NextLive ==
    \/ Connect(Solo, {0})
    \/ DisconnectAll(Solo)
    \/ Message
    \/ Deliver
    \/ Enqueue
    \/ CloseInput
    \/ CloseHub

\* The loop takes the command that waits in the buffer of the hub channel.
TakePending ==
    /\ hub.pending > 0
    /\ Connect(Solo, {0}) \/ DisconnectAll(Solo) \/ Message

\* The goroutine of the loop keeps running: it takes a waiting command, it
\* leaves the range loop of a closed and empty channel, and every send it
\* makes completes, the consumer receiving or the buffer having room.
LoopRuns ==
    /\ WF_vars(TakePending)
    /\ WF_vars(Deliver)
    /\ WF_vars(CloseHub)

SpecLive == Init /\ [][NextLive]_vars /\ LoopRuns

\* ------------------------------------------------------------ properties
\* The step from this state is the send to s of a message published on t.
Sends(s, t) ==
    /\ pc = "fanout"
    /\ fan.cur = s
    /\ Head(fan.topics) = t
    /\ closes[s] = 0

\* C1: over every sequence of commands, a channel connected again after its
\* eviction included, the loop closes each subscriber channel at most once,
\* whichever of Disconnect, DisconnectAll, Close, CloseAll, quota depletion
\* and the final teardown does it.
C1_ClosedAtMostOnce == \A c \in Conns : closes[c] <= 1

\* C2: no step of the loop closes the channel of a conn whose KeepAlive, as
\* the latest Connect, ConnectEach or bare Conn for it left it, is true: the
\* loop closes a channel only of a known conn whose keep flag is false.
C2_KeepAliveNeverClosed ==
    [][\A c \in Conns :
          closes'[c] > closes[c] => c \in DOMAIN conns /\ ~conns[c].keep]_vars

\* A conn connected with KeepAlive has just lost its last edge to a quota and
\* is no longer known, and its channel was never closed.
C2_Witness ==
    /\ last.op = "Deliver"
    /\ last.conn = "a"
    /\ last.had # {}
    /\ "a" \notin DOMAIN conns
    /\ closes["a"] = 0

\* C3: when a send to s takes its total budget from 1 to 0 and the Message
\* command ends, s has no edge on any topic and, unless its keep flag is
\* set, its channel is closed, however s was connected.
C3_TotalDepletionEvicts ==
    [][\A s \in Conns, t \in Topics :
          (Sends(s, t) /\ s \in DOMAIN conns /\ conns[s].messages = 1 /\ pc' = "idle")
             => /\ EdgesIn(topics', s) = {}
                /\ ~conns[s].keep => closes'[s] = 1]_vars

\* C4: a Close command that deletes the one topic a conn is on evicts the conn
\* and closes its channel unless its keep flag is set (then it is evicted and
\* left open), however the conn was connected; a conn only on topics the
\* command does not delete keeps its edges, stays known and stays open.
C4_CloseEvictsOnlyEdge ==
    [][(pc = "idle" /\ last'.op = "Close") =>
          LET gone == DOMAIN topics \ DOMAIN topics'
          IN \A s \in DOMAIN conns :
                /\ (Cardinality(Edges(s)) = 1 /\ Edges(s) \subseteq gone)
                      => /\ s \notin DOMAIN conns'
                         /\ closes'[s] = IF conns[s].keep THEN closes[s] ELSE 1
                /\ (Edges(s) # {} /\ Edges(s) \cap gone = {})
                      => /\ EdgesIn(topics', s) = Edges(s)
                         /\ s \in DOMAIN conns'
                         /\ closes'[s] = closes[s]]_vars

\* C5: a conn whose total budget was last set to n > 0 is sent at most n
\* messages before a later connectEach sets the budget again: no send is made
\* with none of the n left.
C5_TotalQuotaBound == \A c \in Conns : quota.total[c] # -2

\* The step from this state is the q-th send on an edge whose budget was
\* last set to q > 0.
QthSend(s, t) == Sends(s, t) /\ quota.edge[t][s] = 1

\* The step leaves the edges of s on topics other than t, and their
\* counters, as they are.
OthersInPlace(s, t) ==
    \A u \in Edges(s) \ {t} :
       u \in EdgesIn(topics', s) /\ topics'[u][s] = topics[u][s]

\* C6 as claimed: on an edge (t, s) whose budget was last set to q > 0, s is
\* sent at most q messages published on t; the q-th send removes only the
\* edge (t, s), leaving the other edges of s and their counters in place, and
\* s is evicted (and closed unless its keep flag is set) only if (t, s) was
\* its last edge.
C6_QthSendRemovesOnlyEdge ==
    [][\A s \in Conns, t \in Topics :
          /\ quota.edge'[t][s] # -2
          /\ QthSend(s, t) =>
                /\ t \notin EdgesIn(topics', s)
                /\ OthersInPlace(s, t)
                /\ s \notin DOMAIN conns' =>
                      /\ Edges(s) = {t}
                      /\ ~conns[s].keep => closes'[s] = 1]_vars

\* C6, amended: on an edge (t, s) whose budget was last set to q > 0, s is
\* sent at most q messages published on t; the q-th send removes the edge
\* (t, s); when that send also takes the total budget of s to zero every
\* edge of s is removed, otherwise the other edges of s and their counters
\* stay in place; s is evicted (and closed unless its keep flag is set) only
\* if no edge of s remains, (t, s) having been its last edge unless the total
\* budget ran out.
C6_QthSendRemovesEdge ==
    [][\A s \in Conns, t \in Topics :
          /\ quota.edge'[t][s] # -2
          /\ QthSend(s, t) =>
                /\ t \notin EdgesIn(topics', s)
                /\ IF conns[s].messages = 1
                   THEN EdgesIn(topics', s) = {}
                   ELSE OthersInPlace(s, t)
                /\ s \notin DOMAIN conns' =>
                      /\ EdgesIn(topics', s) = {}
                      /\ Edges(s) = {t} \/ conns[s].messages = 1
                      /\ ~conns[s].keep => closes'[s] = 1]_vars

\* A send has removed one of the two edges of a and left the other: a is
\* still known and its channel open.
C6_Witness ==
    /\ last.op = "Deliver"
    /\ last.conn = "a"
    /\ last.had = Topics
    /\ Cardinality(Edges("a")) = 1
    /\ "a" \in DOMAIN conns
    /\ closes["a"] = 0

\* C7: on every send to s for topic t the total budget comes first: when it
\* goes from 1 to 0, s is removed from every topic, whatever is left of its
\* per-topic budgets; otherwise the total counter is decremented (0 stays 0)
\* and the counter of the edge (t, s) is decremented too, the edge being
\* removed when it goes from 1 to 0.
C7_TotalBudgetFirst ==
    [][\A s \in Conns, t \in Topics :
          (Sends(s, t) /\ s \in DOMAIN conns) =>
             LET tot == conns[s].messages
                 cnt == topics[t][s]
             IN IF tot = 1
                THEN EdgesIn(topics', s) = {}
                ELSE /\ s \in DOMAIN conns' =>
                           conns'[s].messages = IF tot = 0 THEN 0 ELSE tot - 1
                     /\ IF cnt = 1
                        THEN t \notin EdgesIn(topics', s)
                        ELSE /\ t \in EdgesIn(topics', s)
                             /\ topics'[t][s] = IF cnt = 0 THEN 0 ELSE cnt - 1
                     /\ OthersInPlace(s, t)]_vars

\* A send has removed a from both topics at once, which only the total
\* budget does; a is evicted and its channel closed.
C7_Witness ==
    /\ last.op = "Deliver"
    /\ last.conn = "a"
    /\ last.had = Topics
    /\ Edges("a") = {}
    /\ "a" \notin DOMAIN conns
    /\ closes["a"] = 1

\* The step leaves every conn other than s as it is: its edges and their
\* counters, its entry in conns and its channel.
OthersUntouched(s) ==
    \A o \in Conns \ {s} :
       /\ EdgesIn(topics', o) = Edges(o)
       /\ \A u \in Edges(o) : topics'[u][o] = topics[u][o]
       /\ (o \in DOMAIN conns') = (o \in DOMAIN conns)
       /\ o \in DOMAIN conns => conns'[o] = conns[o]
       /\ closes'[o] = closes[o]

\* The topics a command with topic list T names.
Listed(T) == IF T = <<>> THEN {DefaultTopic} ELSE {T[i] : i \in DOMAIN T}

\* C8: a Disconnect of a known conn s is, for the list T it carries, the
\* removal of exactly the edges of s on the topics of T (the default topic
\* for an empty T): the other edges of s keep their counters, the topic count
\* of s drops by the number of edges removed and by nothing for listed topics
\* s is not on, every other conn is untouched, and s is evicted, and closed
\* unless its keep flag is set, exactly when no edge of s remains.
C8_DisconnectExact ==
    [][\A s \in DOMAIN conns :
          (pc = "idle" /\ last'.op = "Disconnect" /\ last'.conn = s) =>
             \E T \in TopicLists :
                LET left == Edges(s) \ Listed(T)
                IN /\ EdgesIn(topics', s) = left
                   /\ \A u \in left : topics'[u][s] = topics[u][s]
                   /\ OthersUntouched(s)
                   /\ (s \notin DOMAIN conns') = (left = {})
                   /\ s \in DOMAIN conns' =>
                         conns'[s].topics = conns[s].topics - Cardinality(Edges(s) \cap Listed(T))
                   /\ closes'[s] = IF left = {} /\ ~conns[s].keep THEN 1 ELSE closes[s]]_vars

C10_DisconnectAll ==
    [][/\ \A s \in DOMAIN conns :
             (pc = "idle" /\ last'.op = "DisconnectAll" /\ last'.conn = s) =>
                /\ EdgesIn(topics', s) = {}
                /\ s \notin DOMAIN conns'
                /\ closes'[s] = IF conns[s].keep THEN closes[s] ELSE closes[s] + 1
                /\ OthersUntouched(s)
       /\ pc' = "fanout" =>
             /\ fan'.cur \in DOMAIN conns'
             /\ Head(fan'.topics) \in EdgesIn(topics', fan'.cur)]_vars

\* A DisconnectAll has taken a off both its topics and closed its channel,
\* while b is still known, on a topic, with its channel open.
C10_Witness ==
    /\ last.op = "DisconnectAll"
    /\ last.conn = "a"
    /\ last.had = Topics
    /\ Edges("a") = {}
    /\ "a" \notin DOMAIN conns
    /\ closes["a"] = 1
    /\ "b" \in DOMAIN conns
    /\ Edges("b") # {}
    /\ closes["b"] = 0

\* The edges of conn c in manager m, and the edges of every conn in m.
EdgesOf(m, c) == EdgesIn(m.topics, c)
AllEdges(m) == [c \in Conns |-> EdgesOf(m, c)]

\* Connect(s, T1) then Connect(s, T2), and Connect(s, T) alone, leave the
\* same edges, every edge of s with the unset per-topic quota Connect
\* carries, whatever MessageCount and KeepAlive the commands carry.
SameAsOne(s, T1, T2, T) ==
    \A n \in CountsAll, k \in BOOLEAN :
       LET cmd(ts) == [Conn |-> s, Topics |-> ts, MessageCount |-> n, KeepAlive |-> k]
           two == connect(connect(M, cmd(T1)), cmd(T2))
           one == connect(M, cmd(T))
       IN /\ AllEdges(two) = AllEdges(one)
          /\ \A t \in EdgesOf(two, s) : two.topics[t][s] = 0 /\ one.topics[t][s] = 0

\* C11 as claimed: between two commands, for a conn s that is not known and
\* topic lists T1 and T2, empty ones included, Connect(s, T1) then
\* Connect(s, T2) leave the edges that the one command Connect(s, T1 \o T2)
\* leaves, each with the per-topic quota of the latest command listing it.
C11_ReconnectMerges ==
    pc = "idle" =>
       \A s \in Conns \ DOMAIN conns, T1 \in TopicLists, T2 \in TopicLists :
          SameAsOne(s, T1, T2, T1 \o T2)

\* C11, amended: the same with an empty T1 read as the default topic alone,
\* which the first Connect puts for it: Connect(s, T1) then Connect(s, T2)
\* leave the edges of Connect(s, getTopics(T1) \o T2); an empty T2 adds no
\* edge.
C11_ReconnectMergesDefault ==
    pc = "idle" =>
       \A s \in Conns \ DOMAIN conns, T1 \in TopicLists, T2 \in TopicLists :
          SameAsOne(s, T1, T2, getTopics(T1, TRUE) \o T2)

\* A Connect with no topic put a on the default topic and a second Connect
\* has added the other topic to it.
C11_Witness ==
    /\ last.op = "Connect"
    /\ last.conn = "a"
    /\ last.had = {DefaultTopic}
    /\ Edges("a") = Topics
    /\ \A t \in Topics : topics[t]["a"] = 0

\* The positions of list ts that name topic t, and those of them whose
\* MessageCount is not negative.
ListedAt(ts, t) == {i \in DOMAIN ts : ts[i].Topic = t}
SetAt(ts, t) == {i \in ListedAt(ts, t) : ts[i].MessageCount >= 0}
Least(S) == CHOOSE i \in S : \A j \in S : i <= j
Greatest(S) == CHOOSE i \in S : \A j \in S : i >= j

\* C12: a ConnectEach of a known subscriber with a negative total
\* MessageCount leaves its remaining total budget as it was and still applies
\* the per-topic quotas it lists; a total that is not negative replaces the
\* remaining budget, 0 making it unlimited (a delivery then neither counts
\* against the total nor evicts by it); a negative per-topic MessageCount on
\* an edge that exists leaves the remaining budget of that edge as it was.
\* The command checked also turns KeepAlive over, as the one of
\* TestOverwriteConnectionProperties does.
C12_ReconnectBudgets ==
    pc = "idle" =>
       \A s \in DOMAIN conns, ts \in TopicConnLists(CountsEach), n \in CountsEach :
          LET cmd == [Conn |-> s, Topics |-> ts, MessageCount |-> n,
                      KeepAlive |-> ~conns[s].keep]
              m1  == connectEach(M, cmd)
          IN /\ m1.conns[s].messages = IF n < 0 THEN conns[s].messages ELSE n
             /\ \A t \in Topics :
                   IF t \in Edges(s)
                   THEN m1.topics[t][s] = IF SetAt(ts, t) = {} THEN topics[t][s]
                                          ELSE ts[Greatest(SetAt(ts, t))].MessageCount
                   ELSE IF ListedAt(ts, t) = {} THEN ~HasEdge(m1, t, s)
                   ELSE /\ HasEdge(m1, t, s)
                        /\ m1.topics[t][s] = IF SetAt(ts, t) = {}
                                             THEN ts[Least(ListedAt(ts, t))].MessageCount
                                             ELSE ts[Greatest(SetAt(ts, t))].MessageCount
             /\ n = 0 =>
                   \A t \in EdgesOf(m1, s), tord \in TopicOrders :
                      LET m2 == afterSend(m1, t, s, tord)
                      IN /\ s \in DOMAIN m2.conns => m2.conns[s].messages = 0
                         /\ m1.topics[t][s] # 1 => s \in DOMAIN m2.conns /\ EdgesOf(m2, s) = EdgesOf(m1, s)

\* C12 happens: a Connect or ConnectEach of a known subscriber added an
\* edge and left in place a per-topic budget of which one delivery remains.
C12_Witness ==
    /\ pc = "idle"
    /\ last.op = "Connect"
    /\ last.conn = "a"
    /\ last.had = {"A"}
    /\ Edges("a") = Topics
    /\ topics["A"]["a"] = 1
    /\ quota.edge["A"]["a"] = 1

\* The managers that the commands naming no topic make of m for conn s: a
\* Connect and a ConnectEach with an empty list, and s itself as a command.
NoTopics(m, s) ==
    {connect(m, [Conn |-> s, Topics |-> <<>>, MessageCount |-> n, KeepAlive |-> k]) :
        n \in CountsAll, k \in BOOLEAN}
    \cup {connectEach(m, [Conn |-> s, Topics |-> <<>>, MessageCount |-> n, KeepAlive |-> k]) :
        n \in CountsAll, k \in BOOLEAN}
    \cup {connectEach(m, [Conn |-> s, Topics |-> <<>>, MessageCount |-> 0, KeepAlive |-> FALSE])}

\* The conns to which a message published on the default topic is sent.
DefaultReceivers(m) ==
    nextSend(m, getTopics(<<>>, TRUE), TopicConnsOf(m, DefaultTopic)).rest

C14_UnknownNoOp ==
    [][(/\ last'.op \in {"Disconnect", "DisconnectAll"}
        /\ hub' = hub
        /\ last'.conn \notin DOMAIN conns)
       => /\ topics' = topics
          /\ conns' = conns
          /\ closes' = closes
          /\ quota' = quota
          /\ pc' = "idle"]_vars

\* C14 happens: a DisconnectAll has just named the nil channel while the
\* conn that was evicted before has been connected again.
C14_Witness ==
    /\ last.op = "DisconnectAll"
    /\ last.conn = NilConn
    /\ pc = "idle"
    /\ closes["a"] = 1
    /\ Edges("a") = Topics

\* The topics of list l that manager m has in its table.
InTable(m, l) == SelectSeq(l, LAMBDA t : t \in DOMAIN m.topics)
\* The first send of manager.message over list l: its topic and the conns of
\* that topic, or none.
FirstSend(m, l) ==
    LET n == IF l = <<>> THEN nextSend(m, l, {}) ELSE nextSend(m, l, TopicConnsOf(m, l[1]))
    IN IF n.topics = <<>> THEN <<>> ELSE <<Head(n.topics), n.rest>>

\* C15: a Close and a Message act on the topics they list that are in the
\* table exactly as if the listed topics that are not in it had not been
\* listed: a Close of such topics alone changes nothing, a Message on such
\* topics alone sends nothing, and no Close, Message or delivery adds a
\* topic to the table.
C15_InexistentTopicNoOp ==
    /\ [](pc = "idle" =>
            \A ts \in TopicLists :
               LET l == getTopics(ts, TRUE)
                   e == InTable(M, l)
               IN /\ FirstSend(M, l) = FirstSend(M, e)
                  /\ \A cord \in ConnOrders :
                        LET m1 == closeTopics(M, ts, cord)
                        IN /\ m1 = closeTopicsLoop(M, e, cord)
                           /\ e = <<>> => m1 = M
                           /\ DOMAIN m1.topics \subseteq DOMAIN topics)
    /\ [][last'.op \in {"Close", "Message", "Deliver"}
             => DOMAIN topics' \subseteq DOMAIN topics]_vars

\* C15 happens: a Message was taken that names only topics not in the table
\* while conn a is on topic A, so that nothing was sent and nothing changed.
C15_Witness ==
    /\ last.op = "Message"
    /\ pc = "idle"
    /\ Edges("a") = {"A"}
    /\ DOMAIN topics = {"A"}
    /\ closes["a"] = 0

\* The step is a pass of the inner loop of manager.message: a send.
SendStep == pc = "fanout" /\ hub' = hub
\* The loop is not in a fan-out and has nothing left to take from the hub
\* channel, which is closed.
Drained == hub.closed /\ hub.pending = 0 /\ pc # "fanout"

\* C16 as claimed: once the hub channel is closed the loop makes no send on
\* a subscriber channel.
C16_NoSendAfterClose == [][hub.closed => ~SendStep]_vars

\* C16 amended: once the hub channel is closed and the loop has applied
\* every command sent before the close, the fan-out it was in included, it
\* makes no send on a subscriber channel; the teardown closes once the
\* channel of every known conn whose keep is false, closes no other channel
\* and changes no edge and no entry.
C16_NoSendAfterDrain ==
    [][Drained =>
         /\ ~SendStep
         /\ pc' # "fanout"
         /\ hub' = hub
         /\ topics' = topics
         /\ conns' = conns
         /\ \A c \in Conns :
               closes'[c] = IF pc = "idle" /\ c \in DOMAIN conns /\ ~conns[c].keep
                            THEN closes[c] + 1 ELSE closes[c]]_vars

\* C16 happens: the teardown has run with one conn known whose keep is true,
\* left open, and one whose keep is false, closed.
C16_Witness ==
    /\ pc = "done"
    /\ last.op = "CloseHub"
    /\ DOMAIN conns = Conns
    /\ conns["a"].keep /\ closes["a"] = 0
    /\ ~conns["b"].keep /\ closes["b"] = 1

\* C17: done is closed at most once, and only by a step taken when the hub
\* channel is closed, no command is left in it, the loop is in no fan-out
\* (every command sent before the close is applied in full), and after
\* which every known conn whose keep is false has its channel closed, once;
\* nothing happens in the loop after that.
C17_CompletionAfterTeardown ==
    [][/\ pc # "done"
       /\ pc' = "done" =>
             /\ pc = "idle"
             /\ fan = NoFan
             /\ hub.closed
             /\ hub.pending = 0
             /\ hub' = hub
             /\ \A c \in DOMAIN conns : ~conns[c].keep => closes[c] = 0 /\ closes'[c] = 1]_vars

\* C17 happens: done is closed with the two conns known and their
\* channels, whose keep was false, closed by the teardown.
C17_Witness ==
    /\ pc = "done"
    /\ hub.closed
    /\ hub.pending = 0
    /\ DOMAIN conns = Conns
    /\ \A c \in Conns : ~conns[c].keep /\ closes[c] = 1

\* C18: when the hub channel is closed and every send completes, every
\* command sent before the close is applied in the end and done is closed.
C18_Completes == hub.closed ~> (pc = "done" /\ hub.pending = 0)

\* The conns on topic t in the table tp.
ConnsOn(tp, t) == IF t \in DOMAIN tp THEN DOMAIN tp[t] ELSE {}

\* C19: the sends of the loop follow the order of the commands and, within
\* a Message, the order of its topic list.  A command is taken only when no
\* send of an earlier one is left; during a fan-out the loop only sends, to
\* the conn it is at; the send after it is to a conn of the same topic not
\* sent to in this pass, or, no such conn being left, to the conns of the
\* next listed topic that has any; and the fan-out ends only when no listed
\* topic from the current one on has a conn left to send to.
C19_DeliveryOrder ==
    [][/\ pc = "idle" => fan = NoFan
       /\ (pc = "idle" /\ pc' = "fanout") =>
             /\ last'.op = "Message"
             /\ topics' = topics
             /\ {fan'.cur} \cup fan'.rest = ConnsOn(topics, Head(fan'.topics))
       /\ pc = "fanout" =>
             /\ fan.cur \notin fan.rest
             /\ last' # last => last'.op = "Deliver" /\ last'.conn = fan.cur
             /\ (pc' = "fanout" /\ hub' = hub) =>
                   \/ /\ fan'.topics = fan.topics
                      /\ fan'.cur \in fan.rest
                      /\ fan'.rest \subseteq fan.rest \ {fan'.cur}
                   \/ \E k \in 1..(Len(fan.topics) - 1) :
                         /\ fan'.topics = SubSeq(fan.topics, k + 1, Len(fan.topics))
                         /\ fan.rest \cap ConnsOn(topics', Head(fan.topics)) = {}
                         /\ \A j \in 2..k : ConnsOn(topics', fan.topics[j]) = {}
                         /\ {fan'.cur} \cup fan'.rest = ConnsOn(topics', Head(fan'.topics))
             /\ pc' = "idle" =>
                   /\ fan.rest \cap ConnsOn(topics', Head(fan.topics)) = {}
                   /\ \A j \in 2..Len(fan.topics) : ConnsOn(topics', fan.topics[j]) = {}]_vars

\* C19 happens: a Message on the default topic and then on topic A was sent
\* to conn b, which is on the default topic alone, and the loop is now at
\* the send on topic A to conn a.
C19_Witness ==
    /\ pc = "fanout"
    /\ last.op = "Deliver"
    /\ last.conn = "b"
    /\ last.had = {DefaultTopic}
    /\ fan.topics = <<"A">>
    /\ fan.cur = "a"

\* C20: while the loop is at a send that has not completed, the only step
\* it takes is the completion of that send, to that conn: no command is
\* taken, no other conn is sent anything and done is not closed; every
\* other step is a producer's, which changes nothing of the manager and
\* takes no command out of the hub channel.
C20_BlockedLoop ==
    [][pc = "fanout" =>
         /\ pc' # "done"
         /\ \/ /\ UNCHANGED <<topics, conns, closes, pc, fan, last, quota>>
               /\ hub'.pending >= hub.pending
            \/ /\ last'.op = "Deliver"
               /\ last'.conn = fan.cur
               /\ hub' = hub]_vars

\* C20 happens: the loop is at the send to conn a with conn b next on the
\* same topic, while a command waits in the hub channel, which is closed.
C20_Witness ==
    /\ pc = "fanout"
    /\ fan.cur = "a"
    /\ fan.rest = {"b"}
    /\ hub.pending > 0
    /\ hub.closed

\* C21: a CloseAll leaves no topic and no conn in the manager, closes the
\* channel of every conn that was known with keep false, leaves open the
\* channel of every conn known with keep true, and a Message taken next, on
\* any list of topics, is sent to nobody.
C21_CloseAllEmpties ==
    [][(pc = "idle" /\ last'.op = "CloseAll" /\ hub' = hub) =>
          /\ pc' = "idle"
          /\ DOMAIN topics' = {}
          /\ DOMAIN conns' = {}
          /\ \A s \in DOMAIN conns :
                closes'[s] = IF conns[s].keep THEN closes[s] ELSE 1
          /\ \A ts \in TopicLists :
                FirstSend(Mgr(topics', conns', closes'), getTopics(ts, TRUE)) = <<>>]_vars

\* C22: the first connectEach of a conn keeps a negative MessageCount, total
\* or per-topic, as a counter that no send takes to 0, so that the budget is
\* unlimited: a send to a conn whose total counter is negative leaves it
\* negative and removes at most the edge sent on, and that only by the
\* per-topic budget of this edge; a send on an edge whose counter is
\* negative leaves the edge in place unless the total budget of the conn
\* has run out.
C22_NegativeUnlimited ==
    /\ [](pc = "idle" =>
            \A s \in Solo \ DOMAIN conns, ts \in TopicConnLists(CountsEach) \ {<<>>},
               n \in CountsEach, k \in BOOLEAN :
               LET cmd == [Conn |-> s, Topics |-> ts, MessageCount |-> n, KeepAlive |-> k]
                   m1  == connectEach(M, cmd)
               IN /\ n < 0 => m1.conns[s].messages < 0
                  /\ \A t \in EdgesOf(m1, s) :
                        ts[Greatest(ListedAt(ts, t))].MessageCount < 0 => m1.topics[t][s] < 0)
    /\ [][(pc = "fanout" /\ hub' = hub /\ closes[fan.cur] = 0 /\ fan.cur \in DOMAIN conns) =>
            LET c == fan.cur
                t == Head(fan.topics)
            IN /\ conns[c].messages < 0 =>
                     /\ (c \in DOMAIN conns' => conns'[c].messages < 0)
                     /\ Edges(c) \ {t} \subseteq EdgesIn(topics', c)
                     /\ (topics[t][c] # 1 =>
                           c \in DOMAIN conns' /\ EdgesIn(topics', c) = Edges(c))
               /\ (topics[t][c] < 0 /\ conns[c].messages # 1) =>
                     /\ c \in DOMAIN conns'
                     /\ t \in EdgesIn(topics', c)
                     /\ topics'[t][c] < 0]_vars

\* C22 happens: conn a, whose total and per-topic counters on topic A are
\* negative and have been taken further down by sends, has just been sent a
\* message and is still known and on topic A.
C22_Witness ==
    /\ pc = "idle"
    /\ last.op = "Deliver"
    /\ last.conn = "a"
    /\ "A" \in Edges("a")
    /\ conns["a"].messages < -1
    /\ topics["A"]["a"] < -1
    /\ closes["a"] = 0

\* C23: between two commands the topic count of every known conn is the
\* number of topics on which it has an edge, a topic named twice in a
\* Connect or ConnectEach included.
C23_TopicRefsCountEdges ==
    pc = "idle" => \A s \in DOMAIN conns : conns[s].topics = Cardinality(Edges(s))

\* C24: every conn that has an edge on a topic has an entry in m.conns,
\* between two commands and at every send of a fan-out, and the conn the
\* loop is sending to has its entry and its edge on the topic of the send,
\* so that neither m.conns[c] in manager.message nor ref in
\* removeConnFromTopicRefCountOnly is nil.
C24_EdgesHaveEntries ==
    /\ \A t \in DOMAIN topics : DOMAIN topics[t] \subseteq DOMAIN conns
    /\ pc = "fanout" =>
          /\ fan.cur \in DOMAIN conns
          /\ HasEdge(M, Head(fan.topics), fan.cur)
          /\ \A tord \in TopicOrders : ~afterSend(M, Head(fan.topics), fan.cur, tord).panic

\* C24 happens: in a fan-out the send to conn a has used up its total
\* budget, a is evicted and closed, and the loop is at the send to conn b.
C24_Witness ==
    /\ pc = "fanout"
    /\ last.op = "Deliver"
    /\ last.conn = "a"
    /\ last.had # {}
    /\ "a" \notin DOMAIN conns
    /\ closes["a"] = 1
    /\ fan.cur = "b"

\* C25: between two commands every known conn has an edge on at least one
\* topic: the command that removes the last edge of a conn, be it a
\* Disconnect, a Close, a CloseAll or a send that uses up a quota, deletes
\* its entry too.
C25_KnownHasEdge ==
    pc = "idle" => \A s \in DOMAIN conns : Edges(s) # {}

\* C26: no topic is a key of m.topics with an empty map of conns: the
\* removal of the last edge of a topic deletes its key, and no command, a
\* Message, a Disconnect or a Close on a topic that is not in the table
\* included, leaves a key without a conn.
C26_NoEmptyTopic ==
    \A t \in DOMAIN topics : DOMAIN topics[t] # {}

\* C26 happens: a Disconnect has removed conn a, the only conn of the
\* default topic, from that topic, whose key is gone, and a stays on topic A.
C26_Witness ==
    /\ pc = "idle"
    /\ last.op = "Disconnect"
    /\ last.conn = "a"
    /\ last.had = Topics
    /\ Edges("a") = {"A"}
    /\ DOMAIN topics = {"A"}

\* C27: in a fan-out the range over a listed topic begins with every conn
\* that has an edge on the topic at that moment and with no other; every
\* send of the range is to one of these conns that was not sent to yet, and
\* none of them is dropped from the range by what a send removes; the
\* range ends only when each has been sent to.
C27_EachOnTopicOnce ==
    [][/\ (pc = "idle" /\ pc' = "fanout") =>
             /\ fan'.cur \notin fan'.rest
             /\ {fan'.cur} \cup fan'.rest = ConnsOn(topics', Head(fan'.topics))
       /\ (pc = "fanout" /\ hub' = hub) =>
             /\ fan.cur \in ConnsOn(topics, Head(fan.topics))
             /\ pc' # "panicked"
             /\ IF pc' = "fanout" /\ fan'.topics = fan.topics
                THEN /\ fan'.cur \in fan.rest
                     /\ fan'.rest = fan.rest \ {fan'.cur}
                ELSE /\ fan.rest = {}
                     /\ pc' = "fanout" =>
                           /\ fan'.cur \notin fan'.rest
                           /\ {fan'.cur} \cup fan'.rest
                                 = ConnsOn(topics', Head(fan'.topics))]_vars

\* C27 happens: the range over the first of two listed topics has sent to
\* conn a, which that send evicted, and goes on with conn b, which was on
\* the topic when the range began.
C27_Witness ==
    /\ pc = "fanout"
    /\ Len(fan.topics) = 2
    /\ last.op = "Deliver"
    /\ last.conn = "a"
    /\ Head(fan.topics) \in last.had
    /\ "a" \notin DOMAIN conns
    /\ fan.cur = "b"
    /\ fan.rest = {}

\* The manager m1 differs from the current one at most in the keep flag and
\* the total counter of conn s.
OnlyKeepAndTotal(m1, s) ==
    /\ ~m1.panic
    /\ m1.topics = topics
    /\ m1.closes = closes
    /\ DOMAIN m1.conns = DOMAIN conns
    /\ \A c \in DOMAIN conns \ {s} : m1.conns[c] = conns[c]
    /\ m1.conns[s].topics = conns[s].topics

C29_CountersNotNegative ==
    /\ \A c \in DOMAIN conns : conns[c].topics >= 0 /\ conns[c].messages >= 0
    /\ \A t \in DOMAIN topics : \A c \in DOMAIN topics[t] : topics[t][c] >= 0

\* The results in S are one and the same.
Same(S) == \A x \in S, y \in S : x = y

\* The manager after the sends on topic t to conn c and then to conn d, the
\* loops over m.topics of the two sends taken in the orders o1 and o2.
BothSent(m, t, c, d, o1, o2) == afterSend(afterSend(m, t, c, o1), t, d, o2)

\* C30: what a command makes of the manager, and with it the messages every
\* conn is sent and the moment its channel is closed, does not depend on the
\* order in which a range visits the keys of a map: the topics of
\* closeAllTopics, of disconnectAll and of the removal of a conn from every
\* topic after a send, the conns of a closed topic and of the teardown, and
\* the conns of the topic of a fan-out, whose sends can be made in either
\* order with the same result.
C30_OrderIndependent ==
    /\ pc = "idle" =>
          /\ Same({closeAllTopics(M, tord, cord) : tord \in TopicOrders, cord \in ConnOrders})
          /\ Same({close(M, cord) : cord \in ConnOrders})
          /\ \A ts \in TopicLists : Same({closeTopics(M, ts, cord) : cord \in ConnOrders})
          /\ \A c \in Conns : Same({disconnectAll(M, c, tord) : tord \in TopicOrders})
    /\ pc = "fanout" =>
          LET t == Head(fan.topics)
              c == fan.cur
          IN /\ Same({afterSend(M, t, c, o) : o \in TopicOrders})
             /\ \A d \in fan.rest :
                   Same({BothSent(M, t, c, d, o1, o2) : o1 \in TopicOrders, o2 \in TopicOrders}
                        \cup {BothSent(M, t, d, c, o1, o2) : o1 \in TopicOrders, o2 \in TopicOrders})

\* C30 happens: the loop is at the send to conn a, after which its total
\* budget is used up and a is removed from its two topics, and conn b is
\* next on the same topic.
C30_Witness ==
    /\ pc = "fanout"
    /\ fan.cur = "a"
    /\ fan.rest = {"b"}
    /\ conns["a"].messages = 1
    /\ Edges("a") = Topics
    /\ Edges("b") = Topics
====
